---- MODULE Spec2Model ----
(***************************************************************************)
(* The binary-addition Turing machine of src/main.rs: the sparse tape, the *)
(* control-state machine of TuringMachine::step, the run loop with its     *)
(* step budget, and the result extractor get_result.                       *)
(*                                                                         *)
(* A Rust String is modelled as a sequence of one-character strings.       *)
(***************************************************************************)
EXTENDS Integers, Sequences, FiniteSets, TLC

VARIABLES
    input,        \* the &str handed to TuringMachine::new
    tape,         \* HashMap<i32, char>: a function whose domain is the key set
    state,        \* State
    position,     \* i32 head position
    right_digit,  \* u8
    left_digit,   \* u8
    carry,        \* u8
    pc,           \* where the caller is: "new", "loop", "returned", "panicked"
    max_steps,    \* run's budget argument
    steps,        \* run's local counter
    report,       \* what run printed last: "none", "halted", "stopped"
    result,       \* the String the last get_result call returned
    lastop,       \* the last operation performed on the engine
    ncalls,       \* direct step() calls made after run returned
    ngets,        \* get_result() calls made
    last_state,   \* history: the State the last executed step was taken in
    marked,       \* history: the positions where a step put 'X' over a digit
    adds          \* history: the number of steps taken in AddDigits

machine == <<tape, state, position, right_digit, left_digit, carry>>
history == <<last_state, marked, adds>>
vars == <<input, tape, state, position, right_digit, left_digit, carry,
          pc, max_steps, steps, report, result, lastop, ncalls, ngets,
          last_state, marked, adds>>

----------------------------------------------------------------------------
(* Bounds of the model *)

MaxL == 4          \* longest left operand of a well-formed input
MaxR == 2          \* longest right operand of a well-formed input
MaxAny == 3        \* longest input drawn from the whole alphabet
SmallBudget == 7   \* a step budget small enough to be exhausted
MaxCalls == 2      \* direct step() calls after run returned
MaxGets == 2       \* get_result() calls

(* Program constants *)

HarnessBudget == 500     \* tm.run(500, ..)
FindStartBound == -20    \* if self.position > -20
CarryBound == -10        \* if self.position < -10 && self.carry == 1
TestMaxL == 4            \* longest left operand among the harness inputs
TestMaxR == 2            \* longest right operand among the harness inputs

blank == "_"

(* Every char other than the five the machine names is represented by "a". *)
Digits == {"0", "1"}
ValidChars == {"0", "1", " "}
Chars == {"0", "1", " ", "X", "_", "a"}

States == {"ScanRight", "MarkRightDigit", "FindSpaceGoingLeft", "AddDigits",
           "ReturnRight", "PropagateCarry", "FindStart", "CleanupMarkers",
           "Halt"}

----------------------------------------------------------------------------
(* Strings *)

SeqsUpTo(S, n) == UNION {[1..k -> S] : k \in 0..n}

BinStrings(n) == UNION {[1..k -> Digits] : k \in 1..n}

(* "<L> <R>": two nonempty binary strings and exactly one space *)
ValidInputs == {l \o <<" ">> \o r : l \in BinStrings(MaxL), r \in BinStrings(MaxR)}

(* "<L> <R1>_<R2>": a blank character inside the right operand *)
GappedInputs ==
    {l \o <<" ">> \o r \o <<"_">> \o q :
        l \in BinStrings(1), r \in BinStrings(1), q \in BinStrings(1)}

Inputs == ValidInputs \cup SeqsUpTo(Chars, MaxAny) \cup GappedInputs

Budgets == {SmallBudget, HarnessBudget}

SetMin(S) == CHOOSE x \in S : \A y \in S : x <= y
SetMax(S) == CHOOSE x \in S : \A y \in S : x >= y

RECURSIVE trim_start(_, _)
trim_start(s, c) ==
    IF s # <<>> /\ Head(s) = c THEN trim_start(Tail(s), c) ELSE s

RECURSIVE trim_end(_, _)
trim_end(s, c) ==
    IF s # <<>> /\ s[Len(s)] = c THEN trim_end(SubSeq(s, 1, Len(s) - 1), c) ELSE s

(* Faulty variant: trim_start_matches in place of trim_matches *)
trim_matches_StartOnly(s, c) == trim_start(s, c)

trim_matches(s, c) == trim_end(trim_start(s, c), c)

RECURSIVE from_str_radix2(_)
from_str_radix2(s) ==
    IF s = <<>> THEN 0
    ELSE 2 * from_str_radix2(SubSeq(s, 1, Len(s) - 1))
         + (IF s[Len(s)] = "1" THEN 1 ELSE 0)

(* usize::from_str_radix(bin, 2).unwrap_or(0): an empty string or one with a
   char that is no binary digit is an Err, hence 0 *)
to_dec(bin) ==
    IF bin # <<>> /\ \A i \in 1..Len(bin) : bin[i] \in Digits
    THEN from_str_radix2(bin) ELSE 0

----------------------------------------------------------------------------
(* The tape *)

new_tape(inp) == [i \in 0..(Len(inp) - 1) |-> inp[i + 1]]

read(t, p) == IF p \in DOMAIN t THEN t[p] ELSE blank

write(t, p, c) ==
    IF c = blank
    THEN [k \in DOMAIN t \ {p} |-> t[k]]
    ELSE [k \in DOMAIN t \cup {p} |-> IF k = p THEN c ELSE t[k]]

get_result(t) ==
    IF DOMAIN t = {} THEN <<"0">>
    ELSE LET min == SetMin(DOMAIN t)
             max == SetMax(DOMAIN t)
             collected == [i \in 1..(max - min + 1) |-> read(t, min + i - 1)]
         IN  trim_matches(collected, blank)

----------------------------------------------------------------------------
(* TuringMachine::step, one operator per arm of `match self.state`.  m is
   the engine as a record; m.panic records that the arm reached panic!(). *)

new(inp) ==
    [tape |-> new_tape(inp), state |-> "ScanRight", position |-> 0,
     right_digit |-> 0, left_digit |-> 0, carry |-> 0, panic |-> FALSE]

StepScanRight(m, c) ==
    IF c = "_"
    THEN [m EXCEPT !.position = @ - 1, !.state = "MarkRightDigit"]
    ELSE [m EXCEPT !.position = @ + 1]

(* Faulty variant: the separator arm enters PropagateCarry without moving *)
StepMarkRightDigit_NoMoveOnCarry(m, c) ==
    CASE c = "X" -> [m EXCEPT !.position = @ - 1]
      [] c \in {"0", "1"} -> [m EXCEPT !.right_digit = IF c = "1" THEN 1 ELSE 0,
                                       !.tape = write(m.tape, m.position, "X"),
                                       !.position = @ - 1,
                                       !.state = "FindSpaceGoingLeft"]
      [] c = " " -> IF m.carry = 1
                    THEN [m EXCEPT !.state = "PropagateCarry"]
                    ELSE [m EXCEPT !.state = "FindStart"]
      [] c = "_" -> [m EXCEPT !.position = @ - 1]
      [] OTHER   -> [m EXCEPT !.panic = TRUE]

(* Faulty variant: an 'X' is taken for a digit 0 that is still to be added *)
StepMarkRightDigit_ReprocessesX(m, c) ==
    CASE c \in {"0", "X"} -> [m EXCEPT !.right_digit = 0,
                                       !.tape = write(m.tape, m.position, "X"),
                                       !.position = @ - 1,
                                       !.state = "FindSpaceGoingLeft"]
      [] c = "1" -> [m EXCEPT !.right_digit = 1,
                              !.tape = write(m.tape, m.position, "X"),
                              !.position = @ - 1,
                              !.state = "FindSpaceGoingLeft"]
      [] c = " " -> IF m.carry = 1
                    THEN [m EXCEPT !.position = @ - 1, !.state = "PropagateCarry"]
                    ELSE [m EXCEPT !.state = "FindStart"]
      [] c = "_" -> [m EXCEPT !.position = @ - 1]
      [] OTHER   -> [m EXCEPT !.panic = TRUE]

(* Faulty variant: the digit arms record the digit but never write 'X' *)
StepMarkRightDigit_NoMark(m, c) ==
    CASE c = "X" -> [m EXCEPT !.position = @ - 1]
      [] c \in {"0", "1"} -> [m EXCEPT !.right_digit = IF c = "1" THEN 1 ELSE 0,
                                       !.position = @ - 1,
                                       !.state = "FindSpaceGoingLeft"]
      [] c = " " -> IF m.carry = 1
                    THEN [m EXCEPT !.position = @ - 1, !.state = "PropagateCarry"]
                    ELSE [m EXCEPT !.state = "FindStart"]
      [] c = "_" -> [m EXCEPT !.position = @ - 1]
      [] OTHER   -> [m EXCEPT !.panic = TRUE]

StepMarkRightDigit(m, c) ==
    CASE c = "X" -> [m EXCEPT !.position = @ - 1]
      [] c = "0" -> [m EXCEPT !.right_digit = 0,
                              !.tape = write(m.tape, m.position, "X"),
                              !.position = @ - 1,
                              !.state = "FindSpaceGoingLeft"]
      [] c = "1" -> [m EXCEPT !.right_digit = 1,
                              !.tape = write(m.tape, m.position, "X"),
                              !.position = @ - 1,
                              !.state = "FindSpaceGoingLeft"]
      [] c = " " -> IF m.carry = 1
                    THEN [m EXCEPT !.position = @ - 1, !.state = "PropagateCarry"]
                    ELSE [m EXCEPT !.state = "FindStart"]
      [] c = "_" -> [m EXCEPT !.position = @ - 1]
      [] OTHER   -> [m EXCEPT !.panic = TRUE]

StepFindSpaceGoingLeft(m, c) ==
    IF c = " "
    THEN [m EXCEPT !.position = @ - 1, !.state = "AddDigits"]
    ELSE [m EXCEPT !.position = @ - 1]

(* Faulty variant: a carry sends the engine straight to PropagateCarry *)
StepAddDigits_EagerCarry(m, c) ==
    IF c \notin {"0", "1", "X", "_"}
    THEN [m EXCEPT !.panic = TRUE]
    ELSE LET ld == IF c = "1" THEN 1 ELSE 0
             sum == ld + m.right_digit + m.carry
         IN  [m EXCEPT !.left_digit = ld,
                       !.carry = sum \div 2,
                       !.tape = write(m.tape, m.position,
                                      IF sum % 2 = 0 THEN "0" ELSE "1"),
                       !.position = @ + 1,
                       !.state = IF sum \div 2 = 1 THEN "PropagateCarry"
                                 ELSE "ReturnRight"]

(* Faulty variant: the carry is the sum itself, not the sum halved *)
StepAddDigits_CarryIsSum(m, c) ==
    IF c \notin {"0", "1", "X", "_"}
    THEN [m EXCEPT !.panic = TRUE]
    ELSE LET ld == IF c = "1" THEN 1 ELSE 0
             sum == ld + m.right_digit + m.carry
         IN  [m EXCEPT !.left_digit = ld,
                       !.carry = sum,
                       !.tape = write(m.tape, m.position,
                                      IF sum % 2 = 0 THEN "0" ELSE "1"),
                       !.position = @ + 1,
                       !.state = "ReturnRight"]

(* Faulty variant: the carry is left out of the sum *)
StepAddDigits_DropsCarry(m, c) ==
    IF c \notin {"0", "1", "X", "_"}
    THEN [m EXCEPT !.panic = TRUE]
    ELSE LET ld == IF c = "1" THEN 1 ELSE 0
             sum == ld + m.right_digit
         IN  [m EXCEPT !.left_digit = ld,
                       !.carry = sum \div 2,
                       !.tape = write(m.tape, m.position,
                                      IF sum % 2 = 0 THEN "0" ELSE "1"),
                       !.position = @ + 1,
                       !.state = "ReturnRight"]

(* Faulty variant: the catch-all arm yields 0 instead of panicking *)
StepAddDigits_NoPanic(m, c) ==
    LET ld == IF c = "1" THEN 1 ELSE 0
        sum == ld + m.right_digit + m.carry
    IN  [m EXCEPT !.left_digit = ld,
                  !.carry = sum \div 2,
                  !.tape = write(m.tape, m.position,
                                 IF sum % 2 = 0 THEN "0" ELSE "1"),
                  !.position = @ + 1,
                  !.state = "ReturnRight"]

StepAddDigits(m, c) ==
    IF c \notin {"0", "1", "X", "_"}
    THEN [m EXCEPT !.panic = TRUE]
    ELSE LET ld == IF c = "1" THEN 1 ELSE 0
             sum == ld + m.right_digit + m.carry
             result_digit == sum % 2
         IN  [m EXCEPT !.left_digit = ld,
                       !.carry = sum \div 2,
                       !.tape = write(m.tape, m.position,
                                      IF result_digit = 0 THEN "0" ELSE "1"),
                       !.position = @ + 1,
                       !.state = "ReturnRight"]

(* Faulty variant: turning round at the blank also clears the carry *)
StepReturnRight_ClearsCarry(m, c) ==
    IF c = "_"
    THEN [m EXCEPT !.position = @ - 1, !.state = "ScanRight", !.carry = 0]
    ELSE [m EXCEPT !.position = @ + 1]

StepReturnRight(m, c) ==
    IF c = "_"
    THEN [m EXCEPT !.position = @ - 1, !.state = "ScanRight"]
    ELSE [m EXCEPT !.position = @ + 1]

(* Faulty variant: the '0' and '1' arms are exchanged *)
PropagateCarryMatch_Swapped(m, c) ==
    CASE c \in {"X", " ", "_"} -> [m EXCEPT !.position = @ - 1]
      [] c = "1" -> [m EXCEPT !.tape = write(m.tape, m.position, "1"),
                              !.carry = 0,
                              !.state = "FindStart"]
      [] c = "0" -> [m EXCEPT !.tape = write(m.tape, m.position, "0"),
                              !.position = @ - 1]
      [] OTHER   -> [m EXCEPT !.tape = write(m.tape, m.position, "1"),
                              !.carry = 0,
                              !.state = "FindStart"]

(* the `match c` of the PropagateCarry arm *)
PropagateCarryMatch(m, c) ==
    CASE c \in {"X", " ", "_"} -> [m EXCEPT !.position = @ - 1]
      [] c = "0" -> [m EXCEPT !.tape = write(m.tape, m.position, "1"),
                              !.carry = 0,
                              !.state = "FindStart"]
      [] c = "1" -> [m EXCEPT !.tape = write(m.tape, m.position, "0"),
                              !.position = @ - 1]
      [] OTHER   -> [m EXCEPT !.tape = write(m.tape, m.position, "1"),
                              !.carry = 0,
                              !.state = "FindStart"]

(* the arm's `match c` followed by its bound check *)
StepPropagateCarry(m, c) ==
    LET m1 == PropagateCarryMatch(m, c)
    IN  IF m1.position < CarryBound /\ m1.carry = 1
        THEN [m1 EXCEPT !.tape = write(m1.tape, m1.position, "1"),
                        !.carry = 0,
                        !.state = "FindStart"]
        ELSE m1

(* Faulty variant: on a blank the head moves a second cell left instead of back *)
StepFindStart_OvershootsLeft(m, c) ==
    IF m.position > FindStartBound
    THEN IF read(m.tape, m.position - 1) = "_"
         THEN [m EXCEPT !.position = @ - 2, !.state = "CleanupMarkers"]
         ELSE [m EXCEPT !.position = @ - 1]
    ELSE [m EXCEPT !.position = 0, !.state = "CleanupMarkers"]

(* Faulty variant: the move left is not undone on a blank *)
StepFindStart_NoUndo(m, c) ==
    IF m.position > FindStartBound
    THEN IF read(m.tape, m.position - 1) = "_"
         THEN [m EXCEPT !.position = @ - 1, !.state = "CleanupMarkers"]
         ELSE [m EXCEPT !.position = @ - 1]
    ELSE [m EXCEPT !.position = 0, !.state = "CleanupMarkers"]

StepFindStart(m, c) ==
    IF m.position > FindStartBound
    THEN IF read(m.tape, m.position - 1) = "_"
         THEN [m EXCEPT !.state = "CleanupMarkers"]
         ELSE [m EXCEPT !.position = @ - 1]
    ELSE [m EXCEPT !.position = 0, !.state = "CleanupMarkers"]

(* Faulty variant: only 'X' is erased, the separator is stepped over *)
StepCleanupMarkers_KeepSpace(m, c) ==
    CASE c = "X" -> [m EXCEPT !.tape = write(m.tape, m.position, "_"),
                              !.position = @ + 1]
      [] c = "_" -> [m EXCEPT !.state = "Halt"]
      [] OTHER   -> [m EXCEPT !.position = @ + 1]

StepCleanupMarkers(m, c) ==
    CASE c \in {"X", " "} -> [m EXCEPT !.tape = write(m.tape, m.position, "_"),
                                       !.position = @ + 1]
      [] c = "_" -> [m EXCEPT !.state = "Halt"]
      [] OTHER   -> [m EXCEPT !.position = @ + 1]

(* Faulty variant: the Halt arm moves the head like a catch-all arm *)
StepHalt_Moves(m, c) == [m EXCEPT !.position = @ + 1]

StepHalt(m, c) == m

step(m) ==
    LET c == read(m.tape, m.position)
    IN  CASE m.state = "ScanRight"          -> StepScanRight(m, c)
          [] m.state = "MarkRightDigit"     -> StepMarkRightDigit(m, c)
          [] m.state = "FindSpaceGoingLeft" -> StepFindSpaceGoingLeft(m, c)
          [] m.state = "AddDigits"          -> StepAddDigits(m, c)
          [] m.state = "ReturnRight"        -> StepReturnRight(m, c)
          [] m.state = "PropagateCarry"     -> StepPropagateCarry(m, c)
          [] m.state = "FindStart"          -> StepFindStart(m, c)
          [] m.state = "CleanupMarkers"     -> StepCleanupMarkers(m, c)
          [] m.state = "Halt"               -> StepHalt(m, c)

----------------------------------------------------------------------------
(* The engine as the caller holds it *)

Self ==
    [tape |-> tape, state |-> state, position |-> position,
     right_digit |-> right_digit, left_digit |-> left_digit, carry |-> carry,
     panic |-> FALSE]

(* self.step() on the engine: a panic unwinds out of the caller with the
   engine as the arm left it (neither panicking arm has assigned anything) *)
DoStep ==
    LET m == step(Self)
    IN  /\ tape' = m.tape
        /\ state' = m.state
        /\ position' = m.position
        /\ right_digit' = m.right_digit
        /\ left_digit' = m.left_digit
        /\ carry' = m.carry
        /\ pc' = IF m.panic THEN "panicked" ELSE pc
        /\ lastop' = "step"
        /\ last_state' = state
        /\ marked' = IF read(tape, position) \in Digits
                        /\ read(m.tape, position) = "X"
                     THEN Append(marked, position) ELSE marked
        /\ adds' = IF state = "AddDigits" /\ ~m.panic THEN adds + 1 ELSE adds

Init ==
    /\ input \in Inputs
    /\ tape = new(input).tape
    /\ state = new(input).state
    /\ position = new(input).position
    /\ right_digit = new(input).right_digit
    /\ left_digit = new(input).left_digit
    /\ carry = new(input).carry
    /\ pc = "new"
    /\ max_steps = 0
    /\ steps = 0
    /\ report = "none"
    /\ result = <<>>
    /\ lastop = "new"
    /\ ncalls = 0
    /\ ngets = 0
    /\ last_state = "none"
    /\ marked = <<>>
    /\ adds = 0

(* tm.run(max_steps, ..): entry, `let mut steps = 0` *)
RunEnter ==
    /\ pc = "new"
    /\ \E b \in Budgets : max_steps' = b
    /\ steps' = 0
    /\ pc' = "loop"
    /\ UNCHANGED <<input, machine, report, result, lastop, ncalls, ngets, history>>

(* Faulty variant: the loop condition reads steps <= max_steps *)
RunStep_OneTooMany ==
    /\ pc = "loop"
    /\ state # "Halt" /\ steps <= max_steps
    /\ DoStep
    /\ steps' = steps + 1
    /\ UNCHANGED <<input, max_steps, report, result, ncalls, ngets>>

(* one iteration of `while self.state != State::Halt && steps < max_steps` *)
RunStep ==
    /\ pc = "loop"
    /\ state # "Halt" /\ steps < max_steps
    /\ DoStep
    /\ steps' = steps + 1
    /\ UNCHANGED <<input, max_steps, report, result, ncalls, ngets>>

(* the loop condition is false: run prints its verdict and returns *)
RunReturn ==
    /\ pc = "loop"
    /\ ~(state # "Halt" /\ steps < max_steps)
    /\ report' = IF state = "Halt" THEN "halted" ELSE "stopped"
    /\ pc' = "returned"
    /\ UNCHANGED <<input, machine, max_steps, steps, result, lastop, ncalls, ngets,
                   history>>

(* Faulty variant: the extractor drains the map while collecting *)
GetResult_Draining ==
    /\ pc = "returned"
    /\ ngets < MaxGets
    /\ result' = get_result(tape)
    /\ tape' = <<>>
    /\ ngets' = ngets + 1
    /\ lastop' = "get_result"
    /\ UNCHANGED <<input, state, position, right_digit, left_digit, carry,
                   pc, max_steps, steps, report, ncalls, history>>

(* tm.get_result(): takes &self *)
GetResult ==
    /\ pc = "returned"
    /\ ngets < MaxGets
    /\ result' = get_result(tape)
    /\ ngets' = ngets + 1
    /\ lastop' = "get_result"
    /\ UNCHANGED <<input, machine, pc, max_steps, steps, report, ncalls, history>>

(* a caller invoking tm.step() itself once run has returned *)
StepCall ==
    /\ pc = "returned"
    /\ ncalls < MaxCalls
    /\ DoStep
    /\ ncalls' = ncalls + 1
    /\ UNCHANGED <<input, max_steps, steps, report, result, ngets>>

Next == RunEnter \/ RunStep \/ RunReturn \/ GetResult \/ StepCall

Spec == Init /\ [][Next]_vars

(* the run loop keeps stepping while its condition holds *)
FairSpec == Spec /\ WF_vars(RunStep)

----------------------------------------------------------------------------
(* Vocabulary of the properties *)

SpacePositions(inp) == {i \in 1..Len(inp) : inp[i] = " "}

SeparatorOf(inp) == CHOOSE i \in SpacePositions(inp) : TRUE

(* "<L> <R>" with L and R nonempty binary strings and exactly one space *)
IsValidInput(inp) ==
    /\ Cardinality(SpacePositions(inp)) = 1
    /\ 1 < SeparatorOf(inp) /\ SeparatorOf(inp) < Len(inp)
    /\ \A i \in 1..Len(inp) : i # SeparatorOf(inp) => inp[i] \in Digits

LeftOperand(inp) == SubSeq(inp, 1, SeparatorOf(inp) - 1)
RightOperand(inp) == SubSeq(inp, SeparatorOf(inp) + 1, Len(inp))

IsBinary(s) == s # <<>> /\ \A i \in 1..Len(s) : s[i] \in Digits

(* this transition executed self.step(), from run's loop or from the caller *)
Stepped == steps' = steps + 1 \/ ncalls' = ncalls + 1

(* this transition executed self.get_result() *)
Extracted == ngets' = ngets + 1

(* the symbol under the head is one the current arm answers with panic!() *)
UnexpectedSymbol ==
    \/ state = "MarkRightDigit" /\ read(tape, position) \notin {"X", "0", "1", " ", "_"}
    \/ state = "AddDigits" /\ read(tape, position) \notin {"0", "1", "X", "_"}

----------------------------------------------------------------------------
(* C1: for every valid input "<L> <R>", once the engine has been stepped to
   Halt, get_result read as a binary number equals value(L) + value(R). *)
C1_SumOfOperands ==
    (IsValidInput(input) /\ state = "Halt" /\ lastop = "get_result")
        => to_dec(result) = to_dec(LeftOperand(input)) + to_dec(RightOperand(input))

(* C2: run(500) on the four harness inputs ends in Halt and get_result
   returns exactly the expected string of the harness. *)
HarnessTests ==
    { << <<"1","1","1"," ","1","1">>, <<"1","0","1","0">> >>,
      << <<"1","0","1"," ","1","1">>, <<"1","0","0","0">> >>,
      << <<"1"," ","1">>,             <<"1","0">> >>,
      << <<"1","1","1","1"," ","1">>, <<"1","0","0","0","0">> >> }

C2_HarnessResults ==
    \A t \in HarnessTests :
        (input = t[1] /\ max_steps = HarnessBudget /\ pc = "returned"
            /\ ncalls = 0 /\ lastop = "get_result")
        => (state = "Halt" /\ result = t[2])

(* C3: every valid input reaches Halt, and for operands no longer than the
   harness's (len(L) <= 4, len(R) <= 2) run(500) halts in fewer than 500
   steps, never with the budget exhausted. *)
C3_HaltsWithinBudget ==
    /\ [](  (/\ IsValidInput(input)
             /\ Len(LeftOperand(input)) <= TestMaxL
             /\ Len(RightOperand(input)) <= TestMaxR
             /\ max_steps = HarnessBudget
             /\ pc \in {"loop", "returned"})
          => (/\ steps < HarnessBudget
              /\ pc # "panicked"
              /\ pc = "returned" => report = "halted"))
    /\ ((IsValidInput(input) /\ pc = "loop" /\ max_steps = HarnessBudget)
            ~> (state = "Halt"))

C3_Witness ==
    /\ IsValidInput(input)
    /\ Len(LeftOperand(input)) = TestMaxL
    /\ Len(RightOperand(input)) = TestMaxR
    /\ max_steps = HarnessBudget
    /\ pc = "returned" /\ report = "halted" /\ state = "Halt"
    /\ steps > SmallBudget

(* C4, as stated: an input with a character outside {'0','1',' '} never
   reaches Halt (the run aborts first). *)
C4_ForeignCharNeverHalts ==
    (\E i \in 1..Len(input) : input[i] \notin ValidChars) => state # "Halt"

(* C4, amended: a step aborts with UnexpectedSymbol exactly when it is a
   MarkRightDigit step reading a symbol outside {0,1,X,' ',blank} or an
   AddDigits step reading a symbol outside {0,1,X,blank}; the aborted engine
   is not in Halt and is never stepped again. *)
C4_AbortExactlyOnUnexpectedSymbol ==
    [][ /\ (Stepped /\ UnexpectedSymbol) => (pc' = "panicked" /\ state' # "Halt")
        /\ (pc' = "panicked") => (Stepped /\ UnexpectedSymbol)
        /\ pc # "panicked" ]_vars

C4_Witness ==
    /\ pc = "panicked"
    /\ \E i \in 1..Len(input) : input[i] = "a"
    /\ read(tape, position) = "a"

(* C5: at Halt after a valid input the tape holds no 'X' and no space, and
   get_result is a nonempty string of '0' and '1' only. *)
C5_CleanResultAtHalt ==
    (IsValidInput(input) /\ state = "Halt")
        => /\ \A k \in DOMAIN tape : tape[k] \notin {"X", " "}
           /\ IsBinary(get_result(tape))
           /\ lastop = "get_result" => IsBinary(result)

C5_Witness ==
    /\ IsValidInput(input) /\ state = "Halt" /\ lastop = "get_result"
    /\ Len(RightOperand(input)) = 2
    /\ Len(result) > 1

(* C6: run executes steps until Halt or until max_steps steps were executed:
   never more than max_steps, never a step in Halt; it reports "halted"
   exactly when it returns in Halt, and otherwise returns in a non-Halt
   state with the budget used up, without an error. *)
C6_RunLoop ==
    /\ [](pc # "new" => steps <= max_steps)
    /\ [][steps' = steps + 1 => (state # "Halt" /\ steps < max_steps)]_vars
    /\ []((pc = "returned" /\ ncalls = 0)
            => /\ report = "halted" <=> state = "Halt"
               /\ report = "stopped" <=> (state # "Halt" /\ steps = max_steps)
               /\ report \in {"halted", "stopped"})
    /\ [][(pc = "loop" /\ pc' = "returned") => UNCHANGED <<machine, steps>>]_vars

C6_Witness ==
    /\ pc = "returned" /\ ncalls = 0
    /\ report = "stopped" /\ state # "Halt" /\ steps = max_steps
    /\ max_steps = SmallBudget

(* C7: in every state reachable from new(input) by steps, no tape entry
   stores the blank symbol '_'. *)
C7_TapeSparse == \A k \in DOMAIN tape : tape[k] # blank

(* C8: a step in Halt changes nothing of the engine; a step in any other
   state that does not abort changes state, position or tape. *)
C8_HaltIsTheOnlyFixpoint ==
    [][ Stepped =>
          /\ state = "Halt" => UNCHANGED machine
          /\ (state # "Halt" /\ pc' # "panicked")
                => <<state, position, tape>>' # <<state, position, tape>> ]_vars

C8_Witness ==
    state = "Halt" /\ report = "halted" /\ ncalls = MaxCalls /\ lastop = "step"

(* C9: get_result returns "0" on a tape with no stored cell; otherwise the
   symbols from the minimum to the maximum stored key, blank for absent
   cells, with every leading and trailing blank removed. *)
Window(t) ==
    [i \in 1..(SetMax(DOMAIN t) - SetMin(DOMAIN t) + 1) |->
        IF SetMin(DOMAIN t) + i - 1 \in DOMAIN t
        THEN t[SetMin(DOMAIN t) + i - 1] ELSE "_"]

NonBlankAt(w) == {i \in 1..Len(w) : w[i] # "_"}

Extraction(t) ==
    IF DOMAIN t = {} THEN <<"0">>
    ELSE IF NonBlankAt(Window(t)) = {} THEN <<>>
    ELSE SubSeq(Window(t), SetMin(NonBlankAt(Window(t))),
                           SetMax(NonBlankAt(Window(t))))

C9_ResultExtraction == lastop = "get_result" => result = Extraction(tape)

C9_Witness ==
    /\ lastop = "get_result"
    /\ DOMAIN tape # {}
    /\ \E k \in SetMin(DOMAIN tape)..SetMax(DOMAIN tape) : k \notin DOMAIN tape
    /\ Len(result) < Len(Window(tape))
    /\ result # <<>>

(* C10: get_result changes nothing of the engine, and called again with no
   step in between it returns the same string. *)
C10_ExtractionReadOnly ==
    [][ Extracted =>
          /\ UNCHANGED <<machine, pc, steps>>
          /\ lastop = "get_result" => result' = result ]_vars

C10_Witness ==
    /\ state = "Halt" /\ ngets = 2 /\ ncalls = 0 /\ lastop = "get_result"
    /\ result # <<"0">>

----------------------------------------------------------------------------
(* the symbol under the head *)
UnderHead == read(tape, position)

registers == <<right_digit, left_digit, carry>>

(* C11: the bound check that follows PropagateCarry's match (position < -10
   with carry == 1) never fires: in every reachable PropagateCarry state the
   match leaves its condition false, so the arm with the check and the arm
   without it take the same step. *)
C11_CarryBoundCheckNeverFires ==
    state = "PropagateCarry"
        => /\ ~(/\ PropagateCarryMatch(Self, UnderHead).position < CarryBound
                /\ PropagateCarryMatch(Self, UnderHead).carry = 1)
           /\ StepPropagateCarry(Self, UnderHead) = PropagateCarryMatch(Self, UnderHead)

C11_Witness ==
    last_state = "PropagateCarry" /\ lastop = "step" /\ state = "FindStart"

(* C12, as stated: a FindStart step with position > -20 moves left, undoes
   the move on a blank, and always ends in CleanupMarkers. *)
C12_FindStartAlwaysEntersCleanup ==
    [][ (Stepped /\ state = "FindStart" /\ position > FindStartBound)
          => /\ state' = "CleanupMarkers"
             /\ position' = IF read(tape, position - 1) = blank
                            THEN position ELSE position - 1 ]_vars

(* C12, amended: a FindStart step with position > -20 moves the head one
   cell left; if the newly read symbol is blank it moves back right and the
   state becomes CleanupMarkers, otherwise the head stays one cell left and
   the state remains FindStart.  Tape and registers are unchanged. *)
C12_FindStartStep ==
    [][ (Stepped /\ state = "FindStart" /\ position > FindStartBound)
          => /\ IF read(tape, position - 1) = blank
                THEN position' = position /\ state' = "CleanupMarkers"
                ELSE position' = position - 1 /\ state' = "FindStart"
             /\ UNCHANGED <<tape, registers>> ]_vars

C12_Witness ==
    /\ last_state = "FindStart" /\ lastop = "step"
    /\ state = "FindStart"
    /\ UnderHead # blank

(* C13: an AddDigits step on '0', '1', 'X' or blank sets left_digit to the
   digit value (0 for 'X' and blank), writes (left_digit + right_digit +
   carry) mod 2 as '0'/'1' into the cell under the head, sets carry to that
   sum div 2, moves one cell right and enters ReturnRight; right_digit and
   every other cell are unchanged. *)
C13_AddDigitsStep ==
    [][ (Stepped /\ state = "AddDigits" /\ UnderHead \in {"0", "1", "X", "_"})
          => /\ left_digit' = (IF UnderHead = "1" THEN 1 ELSE 0)
             /\ carry' = (left_digit' + right_digit + carry) \div 2
             /\ DOMAIN tape' = DOMAIN tape \cup {position}
             /\ tape'[position] =
                    (IF (left_digit' + right_digit + carry) % 2 = 0 THEN "0" ELSE "1")
             /\ \A k \in DOMAIN tape \ {position} : tape'[k] = tape[k]
             /\ position' = position + 1
             /\ state' = "ReturnRight"
             /\ right_digit' = right_digit
             /\ pc' = pc ]_vars

C13_Witness ==
    /\ last_state = "AddDigits" /\ lastop = "step"
    /\ state = "ReturnRight"
    /\ carry = 1 /\ left_digit = 0 /\ right_digit = 1
    /\ read(tape, position - 1) = "0"

(* the spaces right of the head, and the nearest of them: the separator a
   leftward walk has come from *)
SpacesRightOfHead == {k \in DOMAIN tape : k > position /\ tape[k] = " "}
SeparatorRightOfHead == SetMin(SpacesRightOfHead)

(* C14, as stated: PropagateCarry is entered only by MarkRightDigit reading
   the separator with carry == 1, and in every PropagateCarry state no cell
   right of the separator holds a '0' or '1'. *)
C14_CarryPhaseAfterRightOperand ==
    /\ [][ (state' = "PropagateCarry" /\ state # "PropagateCarry")
             => (Stepped /\ state = "MarkRightDigit" /\ UnderHead = " " /\ carry = 1) ]_vars
    /\ []( (state = "PropagateCarry" /\ SpacesRightOfHead # {})
             => \A k \in DOMAIN tape :
                    k > SeparatorRightOfHead => tape[k] \notin Digits )

(* C14, amended: PropagateCarry is entered only by MarkRightDigit reading
   the separator with carry == 1, and for a valid input "<L> <R>" no cell
   right of the separator holds a '0' or '1' in any PropagateCarry state. *)
C14_CarryPhaseAfterValidRightOperand ==
    /\ [][ (state' = "PropagateCarry" /\ state # "PropagateCarry")
             => (Stepped /\ state = "MarkRightDigit" /\ UnderHead = " " /\ carry = 1) ]_vars
    /\ []( (state = "PropagateCarry" /\ IsValidInput(input))
             => /\ SpacesRightOfHead = {SeparatorOf(input) - 1}
                /\ \A k \in DOMAIN tape :
                       k > SeparatorOf(input) - 1 => tape[k] \notin Digits )

C14_Witness ==
    /\ state = "PropagateCarry" /\ last_state = "MarkRightDigit"
    /\ IsValidInput(input)
    /\ Len(RightOperand(input)) = 2

(* C15: right_digit changes only in a MarkRightDigit step reading '0' or
   '1', left_digit only in an AddDigits step, carry only in an AddDigits or
   PropagateCarry step; any other transition leaves the registers alone. *)
C15_RegisterFrame ==
    [][ /\ right_digit' # right_digit
            => (Stepped /\ state = "MarkRightDigit" /\ UnderHead \in Digits)
        /\ left_digit' # left_digit
            => (Stepped /\ state = "AddDigits")
        /\ carry' # carry
            => (Stepped /\ state \in {"AddDigits", "PropagateCarry"}) ]_vars

C15_Witness ==
    /\ last_state = "ReturnRight" /\ lastop = "step" /\ state = "ScanRight"
    /\ carry = 1 /\ right_digit = 1

(* C16: right_digit, left_digit and carry are each 0 or 1 in every reachable
   state, so the sum AddDigits computes is at most 3 and fits a u8. *)
C16_RegistersAreBits ==
    /\ right_digit \in {0, 1}
    /\ left_digit \in {0, 1}
    /\ carry \in {0, 1}
    /\ state = "AddDigits"
         => (IF UnderHead = "1" THEN 1 ELSE 0) + right_digit + carry <= 3

C16_Witness ==
    /\ last_state = "AddDigits" /\ lastop = "step"
    /\ carry = 1 /\ left_digit = 1 /\ right_digit = 1

(* len(L) of a valid input; the tape holds L at positions 0 .. len(L)-1 *)
LenL == Len(LeftOperand(input))
LenR == Len(RightOperand(input))

(* C17: on a valid input PropagateCarry is always entered on a '0' (the cell
   just left of the separator); it lasts exactly one step, which writes '1',
   clears the carry and does not move; the carry never ripples further left
   and no cell left of the left operand is ever written. *)
C17_CarryPhaseIsOneStep ==
    /\ []( (IsValidInput(input) /\ state = "PropagateCarry")
             => /\ UnderHead = "0"
                /\ carry = 1
                /\ position = LenL - 1
                /\ last_state = "MarkRightDigit" )
    /\ [][ (IsValidInput(input) /\ Stepped /\ state = "PropagateCarry")
             => /\ state' = "FindStart"
                /\ position' = position
                /\ carry' = 0
                /\ tape' = [tape EXCEPT ![position] = "1"] ]_vars
    /\ []( IsValidInput(input) => \A k \in DOMAIN tape : k >= 0 )

C17_Witness ==
    /\ IsValidInput(input)
    /\ last_state = "PropagateCarry" /\ lastop = "step"
    /\ state = "FindStart" /\ carry = 0
    /\ UnderHead = "1" /\ position = LenL - 1

(* C18: on a valid input no step changes a cell below position len(L)-1;
   every AddDigits and PropagateCarry step writes the cell len(L)-1 and no
   other; the halted result has exactly len(L) symbols and agrees with L on
   its first len(L)-1 symbols. *)
C18_OnlyLastColumnIsSummed ==
    /\ [][ (IsValidInput(input) /\ Stepped)
             => \A k \in DOMAIN tape \cup DOMAIN tape' :
                    k < LenL - 1 => read(tape', k) = read(tape, k) ]_vars
    /\ [][ (IsValidInput(input) /\ Stepped
              /\ state \in {"AddDigits", "PropagateCarry"})
             => /\ position = LenL - 1
                /\ read(tape', position) \in Digits
                /\ \A k \in (DOMAIN tape \cup DOMAIN tape') \ {position} :
                       read(tape', k) = read(tape, k) ]_vars
    /\ []( (IsValidInput(input) /\ state = "Halt")
             => /\ Len(get_result(tape)) = LenL
                /\ SubSeq(get_result(tape), 1, LenL - 1)
                     = SubSeq(LeftOperand(input), 1, LenL - 1) )

C18_Witness ==
    /\ IsValidInput(input) /\ state = "Halt" /\ lastop = "get_result"
    /\ LenL = 3 /\ LenR = 2
    /\ Len(result) = 3
    /\ result # LeftOperand(input)
    /\ adds = 2

(* C19: on a valid input the head stays within 0 .. len(input) after every
   step, so FindStart's safety branch (position <= -20) is never taken. *)
C19_HeadStaysOnInput ==
    IsValidInput(input)
        => /\ 0 <= position /\ position <= Len(input)
           /\ state = "FindStart" => position > FindStartBound

C19_Witness ==
    /\ IsValidInput(input)
    /\ last_state = "FindStart" /\ lastop = "step"
    /\ state = "CleanupMarkers" /\ position = 0

(* C20: on a valid input the main cycle ScanRight -> MarkRightDigit ->
   FindSpaceGoingLeft -> AddDigits -> ReturnRight -> ScanRight runs exactly
   len(R) times before Halt: the right-operand digits are overwritten with
   'X' once each, from the rightmost to the leftmost, and every marking is
   followed by exactly one AddDigits step before the next marking. *)
MainCycle ==
    {<<"ScanRight", "ScanRight">>, <<"ScanRight", "MarkRightDigit">>,
     <<"MarkRightDigit", "MarkRightDigit">>,
     <<"MarkRightDigit", "FindSpaceGoingLeft">>,
     <<"FindSpaceGoingLeft", "FindSpaceGoingLeft">>,
     <<"FindSpaceGoingLeft", "AddDigits">>,
     <<"AddDigits", "ReturnRight">>,
     <<"ReturnRight", "ReturnRight">>, <<"ReturnRight", "ScanRight">>}

AfterMainCycle == {"PropagateCarry", "FindStart", "CleanupMarkers", "Halt"}

C20_OneCyclePerRightDigit ==
    /\ []( IsValidInput(input)
             => /\ Len(marked) <= LenR
                /\ \A i \in 1..Len(marked) : marked[i] = Len(input) - i
                /\ adds = (IF state \in {"FindSpaceGoingLeft", "AddDigits"}
                           THEN Len(marked) - 1 ELSE Len(marked))
                /\ state \in AfterMainCycle
                     => (Len(marked) = LenR /\ adds = LenR) )
    /\ [][ (IsValidInput(input) /\ Stepped /\ state \notin AfterMainCycle)
             => \/ <<state, state'>> \in MainCycle
                \/ /\ state = "MarkRightDigit" /\ UnderHead = " "
                   /\ state' \in {"PropagateCarry", "FindStart"}
                   /\ Len(marked) = LenR ]_vars
    /\ [][ (IsValidInput(input) /\ Stepped /\ state \in AfterMainCycle)
             => state' \in AfterMainCycle ]_vars

C20_Witness ==
    /\ IsValidInput(input) /\ state = "Halt"
    /\ LenR = 2 /\ Len(marked) = 2 /\ adds = 2
    /\ marked = <<Len(input) - 1, Len(input) - 2>>

====
